---- MODULE Spec2Model ----
(***************************************************************************)
(* Model of the book export pipeline of gitmusaddique/book.                *)
(*                                                                         *)
(* The repository holds two generations of the server:                     *)
(*   "project": POST /api/projects/:id/export  (src/unnamed/part_000)      *)
(*   "book":    POST /api/books/:id/export     (src/server/routes.ts,      *)
(*              storage in src/unnamed/part_002)                           *)
(* `impl` selects the generation the server runs; it never changes.        *)
(*                                                                         *)
(* Spec   : the export orchestrator (requests, temporary files, pandoc).   *)
(* SpecT  : the line-by-line typesetting transformer, one loop iteration   *)
(*          per step, over bounded body texts.                             *)
(* SpecC  : the chapters table (create, update, delete, reorder).          *)
(* SpecP  : the chapters table under the editor's creates and deletes only. *)
(* SpecA  : generateTableOfContents and the HTML document assembly.        *)
(* SpecL  : the books table and the books directory (create, save to file, *)
(*          rename, delete).                                               *)
(* SpecS  : createProject / updateProject of the three project storages.   *)
(* SpecD  : the export dialog and the body the export route reads.         *)
(* SpecE  : the editor's useBookState hook with its debounced autosave;    *)
(*          SpecEF adds fairness of timers, server and network.            *)
(***************************************************************************)
EXTENDS Integers, Sequences, FiniteSets, TLC

VARIABLES
    impl,       \* which generation of the server runs
    now,        \* Date.now(), in milliseconds
    exists,     \* does the stored manuscript exist
    title,      \* stored title of the manuscript
    filename,   \* stored books.filename (book generation)
    content,    \* stored body text, as a version number
    edits,      \* how many edit requests the store has served
    fs,         \* the filesystem: path -> file
    inv,        \* the export invocations
    tTOC,       \* transformer: options.includeTOC
    tLines,     \* transformer: content.split('\n')
    tI,         \* transformer: loop index i (0-based); -1 before the header
    tAfter,     \* transformer: afterHeading
    tOut,       \* transformer: markdownContent, one chunk per +=
    tFlags,     \* transformer: afterHeading after each processed line
    chapters,   \* the chapters table: chapter id -> row
    nextChapterId, \* the next value of the serial chapters.id
    reorder,    \* the reorderChapters call in progress
    lastOp,     \* the chapter operation that completed last
    aImpl,      \* analyzer: which generateTableOfContents runs
    aLines,     \* analyzer: markdown.split('\n')
    aOptions,   \* analyzer: the options the document is assembled with
    aI,         \* analyzer: how many lines forEach has visited
    tocItems,   \* analyzer: tocItems
    aHtml,      \* the sections of the assembled HTML document, in order
    books,      \* the books table: book id -> row (title, filename)
    nextBookId, \* the next value of the serial books.id
    booksDir,   \* the names (without .md) of the files in the books directory
    lastRename, \* the renameBook call that returned last, if nothing followed
    storage,    \* which project storage class the server runs
    projects,   \* the project storage: project id -> stored project
    project,    \* editor: the data of the project query
    bookState,  \* editor: bookState.content
    timer,      \* editor: time left on the pending autosave timer
    saves,      \* editor: the save mutations in flight
    fetch,      \* editor: the (re)fetch of the project query in flight
    serverProject, \* editor: content and updatedAt of the project on the server
    typed,      \* editor: how many content changes the user has made
    stopped,    \* editor: the user has stopped editing
    issued,     \* editor: the contents the autosave has issued a save for
    exportOptions, \* export dialog: exportOptions
    reqBody,    \* export dialog: the request body sent, once sent
    applied     \* export dialog: what the server's handler works with

orchVars == <<impl, now, exists, title, filename, content, edits, fs, inv>>
transVars == <<tTOC, tLines, tI, tAfter, tOut, tFlags>>
chapVars == <<chapters, nextChapterId, reorder, lastOp>>
anVars == <<aImpl, aLines, aOptions, aI, tocItems, aHtml>>
libVars == <<books, nextBookId, booksDir, lastRename>>
storeVars == <<storage, projects>>
clientVars == <<project, bookState, timer, saves, fetch, serverProject, typed, stopped, issued>>
dialogVars == <<exportOptions, reqBody, applied>>
restVars == <<libVars, storeVars, clientVars, dialogVars>>
extVars == <<chapVars, anVars, restVars>>
vars == <<impl, now, exists, title, filename, content, edits, fs, inv,
          tTOC, tLines, tI, tAfter, tOut, tFlags,
          chapters, nextChapterId, reorder, lastOp,
          aImpl, aLines, aOptions, aI, tocItems, aHtml,
          books, nextBookId, booksDir, lastRename, storage, projects,
          project, bookState, timer, saves, fetch, serverProject, typed, stopped, issued,
          exportOptions, reqBody, applied>>

-----------------------------------------------------------------------------
(* Bounds of the model *)

MaxInv == 2
MaxClock == 1
MaxEdits == 1
MaxLines == 4

Min2(a, b) == IF a < b THEN a ELSE b
Max2(a, b) == IF a > b THEN a ELSE b

-----------------------------------------------------------------------------
(* Strings are sequences of one-character strings.                         *)

IsWs(c) == c \in {" ", "\t", "\r", "\n"}

\* String.prototype.trim
Trim(s) ==
    LET keep == {k \in 1..Len(s) : ~IsWs(s[k])}
    IN  IF keep = {} THEN <<>>
        ELSE SubSeq(s, CHOOSE k \in keep : \A m \in keep : k <= m,
                       CHOOSE k \in keep : \A m \in keep : k >= m)

\* String.prototype.startsWith
StartsWith(s, p) == Len(s) >= Len(p) /\ SubSeq(s, 1, Len(p)) = p

\* String.prototype.substring(a, b), 0-based, end exclusive, clamped
Substring(s, a, b) ==
    LET ca == Min2(Max2(a, 0), Len(s))
        cb == Min2(Max2(b, 0), Len(s))
    IN  SubSeq(s, Min2(ca, cb) + 1, Max2(ca, cb))

\* String.prototype.substring(a)
SubstringFrom(s, a) == Substring(s, a, Len(s))

\* String.prototype.charAt
CharAt(s, k) == IF k >= 0 /\ k < Len(s) THEN <<s[k + 1]>> ELSE <<>>

\* String.prototype.toLowerCase, one character
LowerChar(c) ==
    CASE c = "A" -> "a"
      [] c = "B" -> "b"
      [] c = "F" -> "f"
      [] c = "H" -> "h"
      [] c = "M" -> "m"
      [] c = "T" -> "t"
      [] OTHER -> c

ToLowerCase(s) == [k \in 1..Len(s) |-> LowerChar(s[k])]

IsLowerAlnum(c) ==
    c \in {"a", "b", "c", "d", "e", "f", "g", "h", "i", "j", "k", "l", "m",
           "n", "o", "p", "q", "r", "s", "t", "u", "v", "w", "x", "y", "z",
           "0", "1", "2", "3", "4", "5", "6", "7", "8", "9"}

KeptByFilename(c) == IsLowerAlnum(c) \/ IsWs(c) \/ c = "-"

RECURSIVE RemoveDisallowed(_)
\* s.replace(/[^a-z0-9\s-]/g, '')
RemoveDisallowed(s) ==
    IF s = <<>> THEN <<>>
    ELSE IF KeptByFilename(Head(s))
         THEN <<Head(s)>> \o RemoveDisallowed(Tail(s))
         ELSE RemoveDisallowed(Tail(s))

RECURSIVE WsRunsToHyphen(_, _)
\* s.replace(/\s+/g, '-'): every maximal whitespace run becomes one hyphen
WsRunsToHyphen(s, inRun) ==
    IF s = <<>> THEN <<>>
    ELSE IF IsWs(Head(s))
         THEN (IF inRun THEN <<>> ELSE <<"-">>) \o WsRunsToHyphen(Tail(s), TRUE)
         ELSE <<Head(s)>> \o WsRunsToHyphen(Tail(s), FALSE)

RECURSIVE HyphenRunsToHyphen(_, _)
\* s.replace(/-+/g, '-')
HyphenRunsToHyphen(s, inRun) ==
    IF s = <<>> THEN <<>>
    ELSE IF Head(s) = "-"
         THEN (IF inRun THEN <<>> ELSE <<"-">>) \o HyphenRunsToHyphen(Tail(s), TRUE)
         ELSE <<Head(s)>> \o HyphenRunsToHyphen(Tail(s), FALSE)

\* DatabaseStorage.generateFilename
generateFilename(t) ==
    Trim(HyphenRunsToHyphen(
            WsRunsToHyphen(RemoveDisallowed(ToLowerCase(t)), FALSE), FALSE))

-----------------------------------------------------------------------------
(* Stored manuscripts and requests                                         *)

\* "My Book" is MemStorage's default project title
Titles == { <<"M", "y", " ", "B", "o", "o", "k">>, <<"a", "b">> }

KnownId == 1
Ids == {1, 2}

\* What a document text is made from. The orchestrator never looks inside
\* the text, so a text is named by the inputs that determine it.
NoDoc == [title |-> <<>>, body |-> -1, toc |-> FALSE, cover |-> FALSE]

\* Values of an optional JSON boolean
OptBool == {"undef", "true", "false"}
Truthy(v) == v = "true"

\* req.body of the project export: { format, pageSize, options }
ProjectRequests ==
    { [format |-> "undef", pageSize |-> "undef", includeTOC |-> "undef", includeCover |-> "undef"],
      [format |-> "html",  pageSize |-> "undef", includeTOC |-> "undef", includeCover |-> "undef"],
      [format |-> "pdf",   pageSize |-> "a4",    includeTOC |-> "true",  includeCover |-> "true"],
      [format |-> "html",  pageSize |-> "letter", includeTOC |-> "false", includeCover |-> "true"] }

\* req.body.exportSettings of the book export
BookRequests ==
    { [format |-> "undef", pageSize |-> "undef", includeTOC |-> "undef",
       includeCover |-> "undef", pdfEngine |-> "undef"],
      [format |-> "undef", pageSize |-> "undef", includeTOC |-> "false",
       includeCover |-> "undef", pdfEngine |-> "xelatex"],
      [format |-> "undef", pageSize |-> "undef", includeTOC |-> "undef",
       includeCover |-> "undef", pdfEngine |-> "tectonic"] }

\* books.exportSettings default
DefaultExportSettings ==
    [includeTOC |-> TRUE, includeCover |-> TRUE, pdfEngine |-> "pdflatex"]

\* the three engines of exportSettingsSchema
Engines == {"pdflatex", "xelatex", "lualatex"}

\* the engine of the project export's command line
ProjectEngine == "xelatex"

\* finalSettings.pdfEngine: the stored value unless the request gives one
MergedEngine(stored, given) == IF given = "undef" THEN stored ELSE given

\* const pdfEngine = exportSettings.pdfEngine || 'pdflatex'
PdfEngineOf(e) == IF e = "" THEN "pdflatex" ELSE e

-----------------------------------------------------------------------------
(* Filesystem                                                              *)

\* /tmp/book-<t>.md, /tmp/book-<t>.pdf, books/<filename>.md
TmpMd(t) == <<"tmp-md", t>>
BookMd(f) == <<"books", f>>

\* (mutant of TmpPdf) the output is written at the book's own file
TmpPdfAtBookFile(t) == BookMd(generateFilename(<<"M", "y", " ", "B", "o", "o", "k">>))

TmpPdf(t) == <<"tmp-pdf", t>>
NoPath == <<"none", 0>>

Paths ==
    {TmpMd(t) : t \in 0..MaxClock} \cup {TmpPdf(t) : t \in 0..MaxClock}
        \cup {BookMd(generateFilename(t)) : t \in Titles}

\* by: the invocation that created the file (its identity); doc: the text
\* it holds; complete: FALSE while a process is still writing it
NoFile == [present |-> FALSE, by |-> 0, doc |-> NoDoc, complete |-> FALSE]

File(by, doc, complete) ==
    [present |-> TRUE, by |-> by, doc |-> doc, complete |-> complete]

\* fs.existsSync
existsSync(f, p) == f[p].present

\* fs.writeFileSync: creates the file, or replaces the content of the
\* existing one
writeFileSync(f, p, i, doc) ==
    [f EXCEPT ![p] = File(IF f[p].present THEN f[p].by ELSE i, doc, TRUE)]

\* fs.unlinkSync when it succeeds
unlinkSync(f, p) == [f EXCEPT ![p] = NoFile]

\* fs.unlinkSync throws when the file is absent (ENOENT) or when the
\* filesystem refuses (fault)
unlinkThrows(f, p, fault) == ~f[p].present \/ fault

-----------------------------------------------------------------------------
(* Export invocations                                                      *)

Inv == 1..MaxInv

NoBuf == [read |-> FALSE, doc |-> NoDoc, complete |-> FALSE]
NoResp == [status |-> 0, kind |-> "none", body |-> NoBuf, fname |-> <<>>,
           ext |-> "none", err |-> "none"]
NoSnap == [title |-> <<>>, filename |-> <<>>, body |-> -1]
IdleInv ==
    [pc |-> "idle", id |-> 0, flagsGiven |-> FALSE, snap |-> NoSnap,
     format |-> "none", pageSize |-> "none", toc |-> FALSE, cover |-> FALSE,
     md |-> NoPath, pdf |-> NoPath, rendered |-> NoDoc, out |-> 0,
     cmd |-> "none", buf |-> NoBuf, refused |-> {}, resp |-> NoResp,
     execs |-> 0, engine |-> "none"]

\* the external command of invocation i is running
PandocPcs == {"spawned", "running", "writing"}
\* invocation i has created its paths and not yet responded
ActivePcs == {"spawned", "running", "writing", "exitOk", "exitFail"}

\* The handler has returned: its locals are gone. What stays is the
\* response, and what the invocation did (the format asked for, its paths,
\* how often it started the command and how the command ended, whether the
\* output was read, the title it read).
Finished(r, resp) ==
    [r EXCEPT !.pc = "done", !.resp = resp, !.rendered = NoDoc, !.out = 0,
              !.pageSize = "none", !.toc = FALSE, !.cover = FALSE,
              !.engine = "none",
              !.snap = [@ EXCEPT !.body = -1],
              !.buf = [@ EXCEPT !.doc = NoDoc, !.complete = FALSE]]

\* res.status(s).json({ message })
JsonResp(status, err) ==
    [status |-> status, kind |-> "json", body |-> NoBuf, fname |-> <<>>,
     ext |-> "none", err |-> err]

\* res.setHeader('Content-Disposition', ...); res.send(pdfBuffer)
PdfResp(buf, fname) ==
    [status |-> 200, kind |-> "pdf", body |-> buf, fname |-> fname,
     ext |-> "pdf", err |-> "none"]

\* res.setHeader('Content-Disposition', ...); res.send(htmlContent)
HtmlResp(doc, fname) ==
    [status |-> 200, kind |-> "html",
     body |-> [read |-> TRUE, doc |-> doc, complete |-> TRUE],
     fname |-> fname, ext |-> "html", err |-> "none"]

\* const { format = "pdf", pageSize = "a4", options = {} } = req.body
FormatOf(req) == IF req.format = "undef" THEN "pdf" ELSE req.format
PageSizeOf(req) == IF req.pageSize = "undef" THEN "a4" ELSE req.pageSize

\* does the request say includeTOC or includeCover
FlagsGiven(req) == req.includeTOC # "undef" \/ req.includeCover # "undef"

\* options.includeTOC, options.includeCover as the project export tests them
ProjectTOC(req) == Truthy(req.includeTOC)
ProjectCover(req) == Truthy(req.includeCover)

\* (mutant of Stored) every identifier is taken as found
StoredAlways(ex, id) == TRUE

\* storage.getProject / storage.getBook found the manuscript
Stored(ex, id) == ex[id]

\* (mutant of TakesPdfPath) every format takes the PDF path
TakesPdfPathAlways(format) == TRUE

\* `if (format === "pdf")`
TakesPdfPath(format) == format = "pdf"

\* finalSettings = { ...exportSettings, ...req.body.exportSettings }
MergedFlag(stored, given) == IF given = "undef" THEN stored ELSE Truthy(given)

\* generateBookHTML: cover and table of contents by the flags, then the body
generateBookHTML(snap, toc, cover) ==
    [title |-> snap.title, body |-> snap.body, toc |-> toc, cover |-> cover]

\* the markdown text generatePDFWithPandoc (project) builds: front matter
\* with `toc: true` by the flag, then the transformed body; no cover
PandocMarkdown(snap, toc) ==
    [title |-> snap.title, body |-> snap.body, toc |-> toc, cover |-> FALSE]

\* the markdown text saveBookToFile writes: title, author, chapters
BookMarkdown(snap) ==
    [title |-> snap.title, body |-> snap.body, toc |-> FALSE, cover |-> FALSE]

\* What a run of cleanup code leaves: the filesystem, and the paths whose
\* deletion the filesystem refused
Left(f, refused) == [fs |-> f, refused |-> refused]

\* the catch block of generatePDFWithPandoc (project): one try around both
\* deletions, so a throw of the first skips the second
CleanupProject(f, md, pdf, fault1, fault2) ==
    IF existsSync(f, md) /\ fault1 THEN Left(f, {md})
    ELSE LET f1 == IF existsSync(f, md) THEN unlinkSync(f, md) ELSE f
         IN  IF ~existsSync(f1, pdf) THEN Left(f1, {})
             ELSE IF fault2 THEN Left(f1, {pdf})
             ELSE Left(unlinkSync(f1, pdf), {})

\* the catch block of generatePDFWithPandoc (book)
CleanupBook(f, pdf, fault) ==
    IF ~existsSync(f, pdf) THEN Left(f, {})
    ELSE IF fault THEN Left(f, {pdf})
    ELSE Left(unlinkSync(f, pdf), {})

\* the outcome of generatePDFWithPandoc: the error thrown ("none": it
\* returned buf), what readFileSync gave, and what cleanup left
Outcome(err, buf, left, refused) ==
    [err |-> err, buf |-> buf, fs |-> left.fs, refused |-> left.refused \cup refused]

\* generatePDFWithPandoc (project) after `await execAsync` resolved:
\* readFileSync, unlinkSync, unlinkSync, return; any throw runs the catch
\* block and is thrown again
ProjectAfterExec(f, md, pdf, rfault, u1, u2, c1, c2) ==
    IF ~existsSync(f, pdf) \/ rfault
    THEN Outcome("read", NoBuf, CleanupProject(f, md, pdf, c1, c2), {})
    ELSE LET buf == [read |-> TRUE, doc |-> f[pdf].doc, complete |-> f[pdf].complete]
         IN  IF unlinkThrows(f, md, u1)
             THEN Outcome("unlink", buf, CleanupProject(f, md, pdf, c1, c2),
                          IF existsSync(f, md) THEN {md} ELSE {})
             ELSE LET f1 == unlinkSync(f, md)
                  IN  IF unlinkThrows(f1, pdf, u2)
                      THEN Outcome("unlink", buf, CleanupProject(f1, md, pdf, c1, c2), {pdf})
                      ELSE Outcome("none", buf, Left(unlinkSync(f1, pdf), {}), {})

\* generatePDFWithPandoc (book) after `await execAsync` resolved
BookAfterExec(f, pdf, rfault, u2, c2) ==
    IF ~existsSync(f, pdf) \/ rfault
    THEN Outcome("read", NoBuf, CleanupBook(f, pdf, c2), {})
    ELSE LET buf == [read |-> TRUE, doc |-> f[pdf].doc, complete |-> f[pdf].complete]
         IN  IF unlinkThrows(f, pdf, u2)
             THEN Outcome("unlink", buf, CleanupBook(f, pdf, c2), {pdf})
             ELSE Outcome("none", buf, Left(unlinkSync(f, pdf), {}), {})

\* the filename of the Content-Disposition header
ProjectDisposition(snap) == snap.title
BookDisposition(snap) == snap.filename

-----------------------------------------------------------------------------
(* The chapters table and the structural analyzer: rows and idle state     *)

MaxChapters == 2

ChapterIds == 1..MaxChapters

\* a row of the chapters table (title, content and the timestamps left out)
NoChapter == [present |-> FALSE, bookId |-> 0, orderIndex |-> 0, pageNumber |-> 0]

Chapter(bookId, orderIndex, pageNumber) ==
    [present |-> TRUE, bookId |-> bookId, orderIndex |-> orderIndex,
     pageNumber |-> pageNumber]

\* createDefaultBook: one chapter with orderIndex 0, pageNumber 1
DefaultChapter == Chapter(KnownId, 0, 1)

NoReorder ==
    [active |-> FALSE, bookId |-> 0, chapterIds |-> <<>>, i |-> 0, changed |-> FALSE]
NoOp == [op |-> "none", bookId |-> 0, orderChanged |-> FALSE]

\* the chapters table after DatabaseStorage's constructor
ChaptersIdle ==
    /\ chapters = [c \in ChapterIds |-> IF c = 1 THEN DefaultChapter ELSE NoChapter]
    /\ nextChapterId = 2
    /\ reorder = NoReorder
    /\ lastOp = NoOp

\* no document is being analyzed
AnalyzerIdle ==
    /\ aImpl = "server"
    /\ aLines = <<>>
    /\ aOptions = [includeTOC |-> "undef", includeCover |-> "undef"]
    /\ aI = 0
    /\ tocItems = <<>>
    /\ aHtml = <<>>

-----------------------------------------------------------------------------
(* The books table, the project storage, the editor and the export dialog:  *)
(* rows and idle state                                                     *)

MaxBooks == 2
MaxFiles == 2
MaxProjects == 3
MaxTyped == 2

BookIds == 1..MaxBooks

\* a row of the books table (author, settings and the timestamps left out)
NoBook == [present |-> FALSE, title |-> <<>>, filename |-> <<>>]
Book(t, f) == [present |-> TRUE, title |-> t, filename |-> f]

\* createDefaultBook: "My First Book"
DefaultBook ==
    Book(<<"M", "y", " ", "F", "i", "r", "s", "t", " ", "B", "o", "o", "k">>,
         generateFilename(<<"M", "y", " ", "F", "i", "r", "s", "t", " ", "B", "o", "o", "k">>))

NoRename == [done |-> FALSE, id |-> 0, oldFilename |-> <<>>, hadFile |-> FALSE]

\* the books table after DatabaseStorage's constructor, nothing saved yet
LibraryIdle ==
    /\ books = [b \in BookIds |-> IF b = 1 THEN DefaultBook ELSE NoBook]
    /\ nextBookId = 2
    /\ booksDir = {}
    /\ lastRename = NoRename

ProjectIds == 1..MaxProjects

\* a stored project: its content is a string, or not a string at all
Undefined == "undefined"
NoProject == [present |-> FALSE, content |-> Undefined]
Project(c) == [present |-> TRUE, content |-> c]

\* the default project the constructors store
DefaultProject == Project("# Chapter 1")

\* the project storage after its constructor
StoreIdle ==
    /\ storage = "storage.ts"
    /\ projects = [p \in ProjectIds |-> IF p = 1 THEN DefaultProject ELSE NoProject]

\* body texts of the editor, as numbers: the initial local text "", the
\* default project's text, and the texts the user types after them in order
EmptyText == 0
DefaultText == 1

\* the autosave delay, in ticks of 1000 ms
SaveDelay == 2

NotLoaded == [loaded |-> FALSE, content |-> 0, updatedAt |-> 0]
Loaded(c, u) == [loaded |-> TRUE, content |-> c, updatedAt |-> u]
NoFetch == [state |-> "idle", content |-> 0, updatedAt |-> 0]
NoTimer == -1

\* the editor before useBookState has mounted, and the server's default project
ClientIdle ==
    /\ project = NotLoaded
    /\ bookState = EmptyText
    /\ timer = NoTimer
    /\ saves = <<>>
    /\ fetch = NoFetch
    /\ serverProject = [content |-> DefaultText, updatedAt |-> 0]
    /\ typed = 0
    /\ stopped = FALSE
    /\ issued = {}

\* ExportModal's useState
InitialExportOptions ==
    [format |-> "pdf", pageSize |-> "a4", includeTOC |-> TRUE, includeCover |-> TRUE,
     includePageNumbers |-> TRUE, includeHeaders |-> FALSE]

\* nothing sent yet; once sent: the options handleExport passed on and the
\* JSON body made of them
NoBody == [sent |-> FALSE, chosen |-> InitialExportOptions, body |-> InitialExportOptions]

\* the handler has not run; once run: the values it works with
NotApplied ==
    [done |-> FALSE, format |-> "pdf", pageSize |-> "a4", includeTOC |-> FALSE,
     includeCover |-> FALSE]

\* the export dialog as it opens
DialogIdle ==
    /\ exportOptions = InitialExportOptions
    /\ reqBody = NoBody
    /\ applied = NotApplied

RestIdle == LibraryIdle /\ StoreIdle /\ ClientIdle /\ DialogIdle

-----------------------------------------------------------------------------
(* The orchestrator: state and steps                                       *)

Init ==
    /\ impl \in {"project", "book"}
    /\ now = 0
    /\ exists = [id \in Ids |-> id = KnownId]
    /\ title = <<"M", "y", " ", "B", "o", "o", "k">>
    /\ filename = generateFilename(<<"M", "y", " ", "B", "o", "o", "k">>)
    /\ content = 0
    /\ edits = 0
    /\ fs = [p \in Paths |-> NoFile]
    /\ inv = [i \in Inv |-> IdleInv]
    /\ tTOC = FALSE
    /\ tLines = <<>>
    /\ tI = -1
    /\ tAfter = FALSE
    /\ tOut = <<>>
    /\ tFlags = <<>>
    /\ ChaptersIdle
    /\ RestIdle
    /\ AnalyzerIdle

\* invocations are numbered in the order they start
MayStart(i) ==
    /\ inv[i].pc = "idle"
    /\ IF i = 1 THEN TRUE ELSE inv[i - 1].pc # "idle"

\* one millisecond passes
Tick ==
    /\ now < MaxClock
    /\ now' = now + 1
    /\ UNCHANGED <<impl, exists, title, filename, content, edits, fs, inv, transVars, extVars>>

\* PATCH /api/projects/:id {content} -> MemStorage.updateProject;
\* PATCH /api/chapters/:id {content} -> DatabaseStorage.updateChapter
UpdateContent ==
    /\ exists[KnownId]
    /\ edits < MaxEdits
    /\ content' = content + 1
    /\ edits' = edits + 1
    /\ UNCHANGED <<impl, now, exists, title, filename, fs, inv, transVars, extVars>>

\* PATCH /api/projects/:id {title} -> MemStorage.updateProject;
\* PATCH /api/books/:id {title} -> DatabaseStorage.updateBook, which sets
\* the columns given and leaves books.filename as it is
UpdateTitle(t) ==
    /\ exists[KnownId]
    /\ edits < MaxEdits
    /\ t # title
    /\ title' = t
    /\ edits' = edits + 1
    /\ UNCHANGED <<impl, now, exists, filename, content, fs, inv, transVars, extVars>>

\* POST /api/projects/:id/export, up to `await execAsync(pandocCmd)`
StartProject(i, id, req, wfault, c1, c2) ==
    /\ impl = "project"
    /\ MayStart(i)
    /\ IF ~Stored(exists, id)
       THEN /\ inv' = [inv EXCEPT ![i] = Finished([@ EXCEPT !.id = id,
                            !.flagsGiven = FlagsGiven(req)], JsonResp(404, "notfound"))]
            /\ fs' = fs
       ELSE LET snap == [title |-> title, filename |-> <<>>, body |-> content]
                toc == ProjectTOC(req)
                cover == ProjectCover(req)
                html == generateBookHTML(snap, toc, cover)
                md == TmpMd(now)
                pdf == TmpPdf(now)
                base == [inv[i] EXCEPT !.id = id, !.flagsGiven = FlagsGiven(req), !.snap = snap,
                            !.format = FormatOf(req), !.pageSize = PageSizeOf(req),
                            !.toc = toc, !.cover = cover]
            IN  IF TakesPdfPath(FormatOf(req))
                THEN IF wfault
                     THEN LET left == CleanupProject(fs, md, pdf, c1, c2)
                          IN  /\ fs' = left.fs
                              /\ inv' = [inv EXCEPT ![i] = Finished([base EXCEPT
                                            !.md = md, !.pdf = pdf,
                                            !.refused = left.refused],
                                            JsonResp(500, "write"))]
                     ELSE /\ fs' = writeFileSync(fs, md, i, PandocMarkdown(snap, toc))
                          /\ inv' = [inv EXCEPT ![i] = [base EXCEPT !.pc = "spawned",
                                        !.md = md, !.pdf = pdf, !.execs = @ + 1,
                                        !.engine = ProjectEngine]]
                ELSE /\ fs' = fs
                     /\ inv' = [inv EXCEPT ![i] =
                                   Finished(base, HtmlResp(html, ProjectDisposition(snap)))]
    /\ UNCHANGED <<impl, now, exists, title, filename, content, edits, transVars, extVars>>

\* POST /api/books/:id/export, up to `await storage.getBookChapters`
StartBook(i, id, req) ==
    /\ impl = "book"
    /\ MayStart(i)
    /\ IF ~Stored(exists, id)
       THEN inv' = [inv EXCEPT ![i] = Finished([@ EXCEPT !.id = id,
                        !.flagsGiven = FlagsGiven(req)], JsonResp(404, "notfound"))]
       ELSE inv' = [inv EXCEPT ![i] = [@ EXCEPT !.pc = "gotBook", !.id = id, !.flagsGiven = FlagsGiven(req),
                        !.snap = [title |-> title, filename |-> filename, body |-> -1],
                        !.format = "pdf", !.pageSize = "a4",
                        !.engine = MergedEngine(DefaultExportSettings.pdfEngine,
                                                req.pdfEngine),
                        !.toc = MergedFlag(DefaultExportSettings.includeTOC, req.includeTOC),
                        !.cover = MergedFlag(DefaultExportSettings.includeCover,
                                             req.includeCover)]]
    /\ UNCHANGED <<impl, now, exists, title, filename, content, edits, fs, transVars, extVars>>

\* POST /api/books/:id/export from getBookChapters to `await execAsync`:
\* saveBookToFile writes books/<filename>.md, generatePDFWithPandoc picks
\* /tmp/book-<now>.pdf and starts the command
SaveAndSpawn(i, wfault) ==
    /\ impl = "book"
    /\ inv[i].pc = "gotBook"
    /\ LET snap == [inv[i].snap EXCEPT !.body = content]
           md == BookMd(snap.filename)
       IN  IF wfault
           THEN /\ fs' = fs
                /\ inv' = [inv EXCEPT ![i] = Finished([@ EXCEPT !.snap = snap],
                                                   JsonResp(500, "write"))]
           ELSE /\ fs' = writeFileSync(fs, md, i, BookMarkdown(snap))
                /\ inv' = [inv EXCEPT ![i] = [@ EXCEPT !.pc = "spawned", !.snap = snap,
                              !.md = md, !.pdf = TmpPdf(now), !.execs = @ + 1,
                              !.engine = PdfEngineOf(@)]]
    /\ UNCHANGED <<impl, now, exists, title, filename, content, edits, transVars, extVars>>

\* the pandoc process opens and reads its input file
PandocRead(i) ==
    /\ inv[i].pc = "spawned"
    /\ IF existsSync(fs, inv[i].md)
       THEN inv' = [inv EXCEPT ![i] = [@ EXCEPT !.pc = "running",
                        !.rendered = fs[inv[i].md].doc]]
       ELSE inv' = [inv EXCEPT ![i] = [@ EXCEPT !.pc = "exitFail", !.cmd = "fail"]]
    /\ UNCHANGED <<impl, now, exists, title, filename, content, edits, fs, transVars, extVars>>

\* the pandoc process opens its output file and has written part of it
PandocWrite(i) ==
    /\ inv[i].pc = "running"
    /\ LET pdf == inv[i].pdf
           ino == IF fs[pdf].present THEN fs[pdf].by ELSE i
       IN  /\ fs' = [fs EXCEPT ![pdf] = File(ino, inv[i].rendered, FALSE)]
           /\ inv' = [inv EXCEPT ![i] = [@ EXCEPT !.pc = "writing", !.out = ino]]
    /\ UNCHANGED <<impl, now, exists, title, filename, content, edits, transVars, extVars>>

\* the pandoc process writes the rest of its output and exits with 0
PandocFinish(i) ==
    /\ inv[i].pc = "writing"
    /\ LET pdf == inv[i].pdf
       IN  fs' = IF fs[pdf].present /\ fs[pdf].by = inv[i].out
                 THEN [fs EXCEPT ![pdf] = File(inv[i].out, inv[i].rendered, TRUE)]
                 ELSE fs
    /\ inv' = [inv EXCEPT ![i] = [@ EXCEPT !.pc = "exitOk", !.cmd = "ok"]]
    /\ UNCHANGED <<impl, now, exists, title, filename, content, edits, transVars, extVars>>

\* the pandoc process exits non-zero or cannot be started
PandocFail(i) ==
    /\ inv[i].pc \in PandocPcs
    /\ inv' = [inv EXCEPT ![i] = [@ EXCEPT !.pc = "exitFail", !.cmd = "fail"]]
    /\ UNCHANGED <<impl, now, exists, title, filename, content, edits, fs, transVars, extVars>>

\* `await execAsync` resolves: the rest of generatePDFWithPandoc and of the
\* route run without a break
ResumeOk(i, rfault, u1, u2, c1, c2) ==
    /\ inv[i].pc = "exitOk"
    /\ LET r == IF impl = "project"
                THEN ProjectAfterExec(fs, inv[i].md, inv[i].pdf, rfault, u1, u2, c1, c2)
                ELSE BookAfterExec(fs, inv[i].pdf, rfault, u2, c2)
           fname == IF impl = "project" THEN ProjectDisposition(inv[i].snap)
                    ELSE BookDisposition(inv[i].snap)
       IN  /\ fs' = r.fs
           /\ inv' = [inv EXCEPT ![i] = Finished([@ EXCEPT !.buf = r.buf,
                                                       !.refused = r.refused],
                         IF r.err = "none" THEN PdfResp(r.buf, fname)
                         ELSE JsonResp(500, r.err))]
    /\ UNCHANGED <<impl, now, exists, title, filename, content, edits, transVars, extVars>>

\* (mutant of OnCommandFailure) the command is started again
OnCommandFailureRetry(r, refused) ==
    [r EXCEPT !.pc = "spawned", !.cmd = "none", !.execs = @ + 1]

\* the error of the command is thrown again and the route answers 500
OnCommandFailure(r, refused) ==
    Finished([r EXCEPT !.refused = refused], JsonResp(500, "command"))

\* `await execAsync` rejects: the catch block, then the route's 500
ResumeFail(i, c1, c2) ==
    /\ inv[i].pc = "exitFail"
    /\ LET left == IF impl = "project"
                   THEN CleanupProject(fs, inv[i].md, inv[i].pdf, c1, c2)
                   ELSE CleanupBook(fs, inv[i].pdf, c2)
       IN  /\ fs' = left.fs
           /\ inv' = [inv EXCEPT ![i] = OnCommandFailure(@, left.refused)]
    /\ UNCHANGED <<impl, now, exists, title, filename, content, edits, transVars, extVars>>

Next ==
    \/ Tick
    \/ UpdateContent
    \/ \E t \in Titles : UpdateTitle(t)
    \/ \E i \in Inv, id \in Ids, req \in ProjectRequests, w, c1, c2 \in BOOLEAN :
          StartProject(i, id, req, w, c1, c2)
    \/ \E i \in Inv, id \in Ids, req \in BookRequests : StartBook(i, id, req)
    \/ \E i \in Inv, w \in BOOLEAN : SaveAndSpawn(i, w)
    \/ \E i \in Inv : PandocRead(i)
    \/ \E i \in Inv : PandocWrite(i)
    \/ \E i \in Inv : PandocFinish(i)
    \/ \E i \in Inv : PandocFail(i)
    \/ \E i \in Inv, r, u1, u2, c1, c2 \in BOOLEAN : ResumeOk(i, r, u1, u2, c1, c2)
    \/ \E i \in Inv, c1, c2 \in BOOLEAN : ResumeFail(i, c1, c2)

Spec == Init /\ [][Next]_vars

-----------------------------------------------------------------------------
(* The typesetting content transformer: generatePDFWithPandoc (project),   *)
(* from the front matter to the end of the loop over the lines             *)

\* lines of body text the model draws from
LineBlank == <<>>
LineH1 == <<"#", " ", "T", "i", "t", "l", "e">>
LineH2 == <<"#", "#", " ", "S">>
LineHello == <<"H", "e", "l", "l", "o", " ", "w", "o", "r", "l", "d">>
LineTwo == <<"a", "b">>
LinePadded == <<" ", "a", " ">>
LineDash == <<"-", " ", "x">>
LineStar == <<"*", " ", "y">>

BodyLines ==
    {LineBlank, LineH1, LineH2, LineHello, LineTwo, LinePadded, LineDash, LineStar}

\* content.split('\n') of a text yields at least one line
Bodies == UNION {[1..n -> BodyLines] : n \in 1..MaxLines}

NL == <<"\n">>

\* one `markdownContent += ...`: the text appended and the index of the
\* line being processed when it was appended (-1: the front matter)
Chunk(src, str) == [src |-> src, str |-> str]

\* '\n\\newpage\n\n'
NewpageStr == <<"\n", "\\newpage", "\n", "\n">>

LettrineOpen == "\\lettrine{"

\* (mutant of FrontMatter) the table-of-contents directive is always there
FrontMatterWithToc(toc) ==
    <<"---", "title", "author", "documentclass: book", "geometry: margin=1in",
      "fontsize: 12pt", "linestretch: 1.2", "header-includes: |",
      "  \\usepackage{lettrine}", "  \\usepackage{microtype}",
      "  \\usepackage{tgtermes}", "toc: true", "toc-depth: 3", "---", "">>

\* the YAML front matter, one element per line of it
FrontMatter(toc) ==
    <<"---", "title", "author", "documentclass: book", "geometry: margin=1in",
      "fontsize: 12pt", "linestretch: 1.2", "header-includes: |",
      "  \\usepackage{lettrine}", "  \\usepackage{microtype}",
      "  \\usepackage{tgtermes}">>
    \o (IF toc THEN <<"toc: true", "toc-depth: 3">> ELSE <<>>)
    \o <<"---", "">>

\* line.startsWith('# ')
IsH1(line) == StartsWith(line, <<"#", " ">>)
\* line.startsWith('#')
IsHeading(line) == StartsWith(line, <<"#">>)
\* line.startsWith('-') || line.startsWith('*')
IsListLine(line) == StartsWith(line, <<"-">>) \/ StartsWith(line, <<"*">>)

\* `if (i > 0) markdownContent += '\n\\newpage\n\n'`
NewpageBefore(i) == i > 0

\* (mutant of DropCap) the directive wraps the two characters after the
\* first one but the remainder starts one character late
DropCapSkipping(line) ==
    LET firstChar == CharAt(line, 0)
        restOfText == SubstringFrom(line, 1)
    IN  <<LettrineOpen>> \o firstChar \o <<"}{">> \o Substring(restOfText, 0, 2)
            \o <<"}">> \o SubstringFrom(restOfText, 3) \o NL \o NL

\* `\\lettrine{${firstChar}}{${restOfText.substring(0, 2)}}${restOfText.substring(2)}\n\n`
DropCap(line) ==
    LET firstChar == CharAt(line, 0)
        restOfText == SubstringFrom(line, 1)
    IN  <<LettrineOpen>> \o firstChar \o <<"}{">> \o Substring(restOfText, 0, 2)
            \o <<"}">> \o SubstringFrom(restOfText, 2) \o NL \o NL

\* (mutant of AfterDropCap) the flag is left set after the drop cap
AfterDropCapKept == TRUE

\* afterHeading once the drop cap has been emitted
AfterDropCap == FALSE

\* (mutant of AfterHeadingLine) a heading line lowers the flag
AfterHeadingLineDown == FALSE

\* afterHeading once a heading line has been emitted
AfterHeadingLine == TRUE

\* the body of the loop for line i: what is appended, and afterHeading
TransformLine(i, raw, after) ==
    LET line == Trim(raw)
    IN  IF IsH1(line)
        THEN [out |-> (IF NewpageBefore(i) THEN <<Chunk(i, NewpageStr)>> ELSE <<>>)
                        \o <<Chunk(i, line \o NL \o NL)>>,
              after |-> AfterHeadingLine]
        ELSE IF IsHeading(line)
        THEN [out |-> <<Chunk(i, line \o NL \o NL)>>, after |-> AfterHeadingLine]
        ELSE IF line = <<>>
        THEN [out |-> <<Chunk(i, NL)>>, after |-> after]
        ELSE IF after /\ Len(line) > 0 /\ ~IsListLine(line)
        THEN [out |-> <<Chunk(i, DropCap(line))>>, after |-> AfterDropCap]
        ELSE [out |-> <<Chunk(i, line \o NL \o NL)>>,
              after |-> IF ~IsListLine(line) THEN FALSE ELSE after]

InitT ==
    /\ impl = "project"
    /\ now = 0
    /\ exists = [id \in Ids |-> id = KnownId]
    /\ title = <<"M", "y", " ", "B", "o", "o", "k">>
    /\ filename = generateFilename(<<"M", "y", " ", "B", "o", "o", "k">>)
    /\ content = 0
    /\ edits = 0
    /\ fs = [p \in Paths |-> NoFile]
    /\ inv = [i \in Inv |-> IdleInv]
    /\ tTOC \in BOOLEAN
    /\ tLines \in Bodies
    /\ tI = -1
    /\ tAfter = FALSE
    /\ tOut = <<>>
    /\ tFlags = <<>>
    /\ ChaptersIdle
    /\ RestIdle
    /\ AnalyzerIdle

\* the front matter is appended, `lines` is split, afterHeading = false
EmitHeader ==
    /\ tI = -1
    /\ tOut' = <<Chunk(-1, FrontMatter(tTOC))>>
    /\ tAfter' = FALSE
    /\ tI' = 0
    /\ UNCHANGED <<orchVars, extVars, tTOC, tLines, tFlags>>

\* one iteration of `for (let i = 0; i < lines.length; i++)`
LineStep ==
    /\ tI >= 0
    /\ tI < Len(tLines)
    /\ LET r == TransformLine(tI, tLines[tI + 1], tAfter)
       IN  /\ tOut' = tOut \o r.out
           /\ tAfter' = r.after
           /\ tFlags' = Append(tFlags, r.after)
    /\ tI' = tI + 1
    /\ UNCHANGED <<orchVars, extVars, tTOC, tLines>>

NextT == EmitHeader \/ LineStep

SpecT == InitT /\ [][NextT]_vars

\* the loop has ended
TDone == tI = Len(tLines) /\ tI >= 0

-----------------------------------------------------------------------------
(* The chapters table: DatabaseStorage's chapter methods and their routes   *)

\* a field the request body leaves out
Absent == -1
Given(v) == v # Absent
OrElse(v, d) == IF Given(v) THEN v ELSE d

\* getBookChapters, as a set of ids
BookChapterIds(rows, b) == {c \in DOMAIN rows : rows[c].present /\ rows[c].bookId = b}

\* bodies of POST /api/books/:bookId/chapters: nothing about the position
\* (the column defaults apply), or the position the editor computes from
\* the chapters it shows: orderIndex chapters.length, pageNumber one more
EditorChapterInput(rows, b) ==
    [orderIndex |-> Cardinality(BookChapterIds(rows, b)),
     pageNumber |-> Cardinality(BookChapterIds(rows, b)) + 1]

ChapterInputs(rows, b) ==
    {[orderIndex |-> Absent, pageNumber |-> Absent], EditorChapterInput(rows, b)}

\* bodies of PATCH /api/chapters/:id: content only, orderIndex only,
\* orderIndex and pageNumber
ChapterUpdates ==
    {[orderIndex |-> Absent, pageNumber |-> Absent]}
        \cup {[orderIndex |-> k, pageNumber |-> Absent] : k \in 0..(MaxChapters - 1)}
        \cup {[orderIndex |-> k, pageNumber |-> k + 1] : k \in 0..(MaxChapters - 1)}

\* chapterIds arguments of reorderChapters: lists of distinct chapter ids
ReorderInputs ==
    {ids \in UNION {[1..n -> ChapterIds] : n \in 0..MaxChapters} :
        \A a, b \in 1..Len(ids) : a # b => ids[a] # ids[b]}

Completed(op, b, changed) == [op |-> op, bookId |-> b, orderChanged |-> changed]

InitC ==
    /\ impl = "book"
    /\ now = 0
    /\ exists = [id \in Ids |-> id = KnownId]
    /\ title = <<"M", "y", " ", "B", "o", "o", "k">>
    /\ filename = generateFilename(<<"M", "y", " ", "B", "o", "o", "k">>)
    /\ content = 0
    /\ edits = 0
    /\ fs = [p \in Paths |-> NoFile]
    /\ inv = [i \in Inv |-> IdleInv]
    /\ tTOC = FALSE
    /\ tLines = <<>>
    /\ tI = -1
    /\ tAfter = FALSE
    /\ tOut = <<>>
    /\ tFlags = <<>>
    /\ ChaptersIdle
    /\ RestIdle
    /\ AnalyzerIdle

\* POST /api/books/:bookId/chapters -> createChapter; the insert fails on
\* the foreign key when the book is not there
CreateChapter(b, in) ==
    /\ nextChapterId \in DOMAIN chapters
    /\ IF exists[b]
       THEN /\ chapters' = [chapters EXCEPT ![nextChapterId] =
                              Chapter(b, OrElse(in.orderIndex, 0), OrElse(in.pageNumber, 1))]
            /\ nextChapterId' = nextChapterId + 1
            /\ lastOp' = Completed("create", b, FALSE)
       ELSE /\ lastOp' = Completed("failed", 0, FALSE)
            /\ UNCHANGED <<chapters, nextChapterId>>
    /\ UNCHANGED <<orchVars, transVars, reorder, anVars, restVars>>

\* the columns updateChapter sets: those the body gives
UpdatedRow(row, up) ==
    [row EXCEPT !.orderIndex = OrElse(up.orderIndex, @),
                !.pageNumber = OrElse(up.pageNumber, @)]

\* PATCH /api/chapters/:id -> updateChapter
UpdateChapter(c, up) ==
    /\ IF chapters[c].present
       THEN /\ chapters' = [chapters EXCEPT ![c] = UpdatedRow(@, up)]
            /\ lastOp' = Completed("update", chapters[c].bookId,
                                   UpdatedRow(chapters[c], up).orderIndex
                                       # chapters[c].orderIndex)
       ELSE /\ lastOp' = Completed("failed", 0, FALSE)
            /\ UNCHANGED chapters
    /\ UNCHANGED <<orchVars, transVars, nextChapterId, reorder, anVars, restVars>>

\* DELETE /api/chapters/:id -> deleteChapter
DeleteChapter(c) ==
    /\ IF chapters[c].present
       THEN /\ chapters' = [chapters EXCEPT ![c] = NoChapter]
            /\ lastOp' = Completed("delete", chapters[c].bookId, FALSE)
       ELSE /\ lastOp' = Completed("failed", 0, FALSE)
            /\ UNCHANGED chapters
    /\ UNCHANGED <<orchVars, transVars, nextChapterId, reorder, anVars, restVars>>

\* reorderChapters(bookId, chapterIds) is called
ReorderStart(b, ids) ==
    /\ ~reorder.active
    /\ reorder' = [active |-> TRUE, bookId |-> b, chapterIds |-> ids, i |-> 0,
                   changed |-> FALSE]
    /\ UNCHANGED <<orchVars, transVars, chapters, nextChapterId, lastOp, anVars, restVars>>

\* the row one iteration of reorderChapters writes
ReorderedRow(row, i) == [row EXCEPT !.orderIndex = i, !.pageNumber = i + 1]

\* one iteration of the loop: `await db.update(chapters).set({ orderIndex:
\* i, pageNumber: i + 1 }).where(eq(chapters.id, chapterIds[i]))`
ReorderStep ==
    /\ reorder.active
    /\ reorder.i < Len(reorder.chapterIds)
    /\ LET c == reorder.chapterIds[reorder.i + 1]
       IN  IF chapters[c].present
           THEN /\ chapters' = [chapters EXCEPT ![c] = ReorderedRow(@, reorder.i)]
                /\ reorder' = [reorder EXCEPT !.i = @ + 1,
                                  !.changed = @ \/ chapters[c].orderIndex # reorder.i]
           ELSE /\ reorder' = [reorder EXCEPT !.i = @ + 1]
                /\ UNCHANGED chapters
    /\ UNCHANGED <<orchVars, transVars, nextChapterId, lastOp, anVars, restVars>>

\* the loop has ended and reorderChapters returns
ReorderEnd ==
    /\ reorder.active
    /\ reorder.i = Len(reorder.chapterIds)
    /\ lastOp' = Completed("reorder", reorder.bookId, reorder.changed)
    /\ reorder' = NoReorder
    /\ UNCHANGED <<orchVars, transVars, chapters, nextChapterId, anVars, restVars>>

NextC ==
    \/ \E b \in Ids : \E in \in ChapterInputs(chapters, b) : CreateChapter(b, in)
    \/ \E c \in ChapterIds, up \in ChapterUpdates : UpdateChapter(c, up)
    \/ \E c \in ChapterIds : DeleteChapter(c)
    \/ \E b \in Ids, ids \in ReorderInputs : ReorderStart(b, ids)
    \/ ReorderStep
    \/ ReorderEnd

SpecC == InitC /\ [][NextC]_vars

\* The editor alone on the chapters table: it only adds chapters at the
\* position it computes from the chapters it shows, and deletes chapters.
MaxCreated == 5

InitP ==
    /\ impl = "book"
    /\ now = 0
    /\ exists = [id \in Ids |-> id = KnownId]
    /\ title = <<"M", "y", " ", "B", "o", "o", "k">>
    /\ filename = generateFilename(<<"M", "y", " ", "B", "o", "o", "k">>)
    /\ content = 0
    /\ edits = 0
    /\ fs = [p \in Paths |-> NoFile]
    /\ inv = [i \in Inv |-> IdleInv]
    /\ tTOC = FALSE
    /\ tLines = <<>>
    /\ tI = -1
    /\ tAfter = FALSE
    /\ tOut = <<>>
    /\ tFlags = <<>>
    /\ chapters = [c \in 1..MaxCreated |-> IF c = 1 THEN DefaultChapter ELSE NoChapter]
    /\ nextChapterId = 2
    /\ reorder = NoReorder
    /\ lastOp = NoOp
    /\ AnalyzerIdle
    /\ RestIdle

NextP ==
    \/ \E b \in Ids : CreateChapter(b, EditorChapterInput(chapters, b))
    \/ \E c \in DOMAIN chapters : DeleteChapter(c)

SpecP == InitP /\ [][NextP]_vars

-----------------------------------------------------------------------------
(* The structural analyzer (generateTableOfContents) and the HTML document *)
(* assembly (generateBookHTML)                                             *)

MaxTocLines == 3

\* `.` of a regular expression: any character but a line terminator
IsDot(c) == c \notin {"\n", "\r"}

\* the ways /^(#{1,6})\s+(.+)$/ can match a line: <<h, w>> with h '#'
\* characters, then w whitespace characters, then a non-empty rest with no
\* line terminator up to the end of the line
Candidates(line) ==
    {hw \in (1..6) \X (1..Len(line)) :
        /\ hw[1] + hw[2] < Len(line)
        /\ \A k \in 1..hw[1] : line[k] = "#"
        /\ \A k \in (hw[1] + 1)..(hw[1] + hw[2]) : IsWs(line[k])
        /\ \A k \in (hw[1] + hw[2] + 1)..Len(line) : IsDot(line[k])}

\* the match the engine returns: both quantifiers are greedy, so the first
\* match found has the most '#' and then the most whitespace
FirstMatch(line) ==
    CHOOSE hw \in Candidates(line) :
        \A o \in Candidates(line) :
            hw[1] > o[1] \/ (hw[1] = o[1] /\ hw[2] >= o[2])

\* line.match(/^(#{1,6})\s+(.+)$/): null, or groups 1 and 2
Match(line) ==
    IF Candidates(line) = {} THEN [matched |-> FALSE, g1 |-> <<>>, g2 |-> <<>>]
    ELSE LET hw == FirstMatch(line)
         IN  [matched |-> TRUE, g1 |-> SubSeq(line, 1, hw[1]),
              g2 |-> SubSeq(line, hw[1] + hw[2] + 1, Len(line))]

TocItem(t, level) == [title |-> t, level |-> level]

\* { title, level } of a matching line: match[2] on the server,
\* match[2].trim() in the editor's sidebar
ItemOf(which, m) ==
    TocItem(IF which = "client" THEN Trim(m.g2) ELSE m.g2, Len(m.g1))

\* (mutant of Push) an item already in the list is not added again
PushUnlessPresent(items, item) ==
    IF \E k \in 1..Len(items) : items[k] = item THEN items ELSE Append(items, item)

\* tocItems.push(item)
Push(items, item) == Append(items, item)

\* lines the analyzed texts are made of
TocLines ==
    { <<"#", " ", "T">>,
      <<"#", "#", " ", "S">>,
      <<"#", "#", "#", "#", "#", "#", " ", "d">>,
      <<"#", "#", "#", "#", "#", "#", "#", " ", "x">>,
      <<"#", " ", " ">>,
      <<"#", " ">>,
      <<"#", "x">>,
      <<"#", " ", "T", "\r">>,
      <<"t", "e", "x", "t">> }

\* markdown.split('\n') of a text
TocTexts == UNION {[1..n -> TocLines] : n \in 1..MaxTocLines}

\* the options of generateBookHTML
AssembleOptions ==
    {[includeTOC |-> "undef", includeCover |-> "undef"]}
        \cup {[includeTOC |-> a, includeCover |-> b] : a, b \in {"true", "false"}}

Section(kind, items) == [kind |-> kind, items |-> items]

\* (mutant of HtmlSections) the table of contents is put before the cover
HtmlSectionsTocFirst(options, items) ==
    (IF Truthy(options.includeTOC) THEN <<Section("toc-page", items)>> ELSE <<>>)
        \o (IF Truthy(options.includeCover) THEN <<Section("cover-page", <<>>)>> ELSE <<>>)
        \o <<Section("content", <<>>)>>

\* the <body> of the template of generateBookHTML: the div elements in the
\* order they are written
HtmlSections(options, items) ==
    (IF Truthy(options.includeCover) THEN <<Section("cover-page", <<>>)>> ELSE <<>>)
        \o (IF Truthy(options.includeTOC) THEN <<Section("toc-page", items)>> ELSE <<>>)
        \o <<Section("content", <<>>)>>

InitA ==
    /\ impl = "project"
    /\ now = 0
    /\ exists = [id \in Ids |-> id = KnownId]
    /\ title = <<"M", "y", " ", "B", "o", "o", "k">>
    /\ filename = generateFilename(<<"M", "y", " ", "B", "o", "o", "k">>)
    /\ content = 0
    /\ edits = 0
    /\ fs = [p \in Paths |-> NoFile]
    /\ inv = [i \in Inv |-> IdleInv]
    /\ tTOC = FALSE
    /\ tLines = <<>>
    /\ tI = -1
    /\ tAfter = FALSE
    /\ tOut = <<>>
    /\ tFlags = <<>>
    /\ ChaptersIdle
    /\ RestIdle
    /\ aImpl \in {"server", "client"}
    /\ aLines \in TocTexts
    /\ aOptions \in IF aImpl = "server" THEN AssembleOptions
                    ELSE {[includeTOC |-> "undef", includeCover |-> "undef"]}
    /\ aI = 0
    /\ tocItems = <<>>
    /\ aHtml = <<>>

\* one call of the callback of lines.forEach
AnalyzeLine ==
    /\ aI < Len(aLines)
    /\ LET m == Match(aLines[aI + 1])
       IN  tocItems' = IF m.matched THEN Push(tocItems, ItemOf(aImpl, m)) ELSE tocItems
    /\ aI' = aI + 1
    /\ UNCHANGED <<orchVars, transVars, chapVars, restVars, aImpl, aLines, aOptions, aHtml>>

\* generateBookHTML, after generateTableOfContents returned: the template
AssembleHTML ==
    /\ aImpl = "server"
    /\ aI = Len(aLines)
    /\ aHtml = <<>>
    /\ aHtml' = HtmlSections(aOptions, tocItems)
    /\ UNCHANGED <<orchVars, transVars, chapVars, restVars, aImpl, aLines, aOptions, aI, tocItems>>

NextA == AnalyzeLine \/ AssembleHTML

SpecA == InitA /\ [][NextA]_vars

-----------------------------------------------------------------------------
(* The books table and the books directory: DatabaseStorage's book methods  *)

\* the titles of POST /api/books and of renameBook: words and a space, a
\* period between letters, a capital, a trailing period, a leading space
BookTitles ==
    {<<"a", " ", "b">>, <<"a", ".", "b">>, <<"B">>, <<"a", ".">>, <<" ", "a">>}

\* the orchestrator's and the transformer's parts stay as constructed
InitL ==
    /\ impl = "book"
    /\ now = 0
    /\ exists = [id \in Ids |-> id = KnownId]
    /\ title = <<"M", "y", " ", "B", "o", "o", "k">>
    /\ filename = generateFilename(<<"M", "y", " ", "B", "o", "o", "k">>)
    /\ content = 0
    /\ edits = 0
    /\ fs = [p \in Paths |-> NoFile]
    /\ inv = [i \in Inv |-> IdleInv]
    /\ tTOC = FALSE
    /\ tLines = <<>>
    /\ tI = -1
    /\ tAfter = FALSE
    /\ tOut = <<>>
    /\ tFlags = <<>>
    /\ ChaptersIdle
    /\ AnalyzerIdle
    /\ LibraryIdle
    /\ StoreIdle
    /\ ClientIdle
    /\ DialogIdle

LibraryRest == <<orchVars, transVars, chapVars, anVars, storeVars, clientVars, dialogVars>>

\* POST /api/books: the filename is generated from the title of the body
CreateBook(t) ==
    /\ nextBookId <= MaxBooks
    /\ books' = [books EXCEPT ![nextBookId] = Book(t, generateFilename(t))]
    /\ nextBookId' = nextBookId + 1
    /\ lastRename' = NoRename
    /\ UNCHANGED <<booksDir, LibraryRest>>

\* saveBookToFile(book, chapters): writes books/<filename>.md
SaveBookToFile(b) ==
    /\ books[b].present
    /\ Cardinality(booksDir \cup {books[b].filename}) <= MaxFiles
    /\ booksDir' = booksDir \cup {books[b].filename}
    /\ lastRename' = NoRename
    /\ UNCHANGED <<books, nextBookId, LibraryRest>>

\* fs.renameSync(oldPath, newPath) when fs.existsSync(oldPath)
RenamedOnDisk(dir, oldPath, newPath) ==
    IF oldPath \in dir THEN (dir \ {oldPath}) \cup {newPath} ELSE dir

\* renameBook(id, newTitle): the row is updated first, and the row read
\* afterwards gives the "old" path
RenameBook(b, newTitle) ==
    LET newFilename == generateFilename(newTitle)
        updated == IF books[b].present
                   THEN [books EXCEPT ![b] = Book(newTitle, newFilename)]
                   ELSE books
        oldBook == updated[b]
    IN  /\ books' = updated
        /\ booksDir' = IF oldBook.present
                       THEN RenamedOnDisk(booksDir, oldBook.filename, newFilename)
                       ELSE booksDir
        /\ lastRename' = IF books[b].present
                         THEN [done |-> TRUE, id |-> b,
                               oldFilename |-> books[b].filename,
                               hadFile |-> books[b].filename \in booksDir]
                         ELSE NoRename
        /\ UNCHANGED <<nextBookId, LibraryRest>>

\* deleteBook(id): the file is removed when it is there, then the row
DeleteBook(b) ==
    /\ books[b].present
    /\ booksDir' = booksDir \ {books[b].filename}
    /\ books' = [books EXCEPT ![b] = NoBook]
    /\ lastRename' = NoRename
    /\ UNCHANGED <<nextBookId, LibraryRest>>

NextL ==
    \/ \E t \in BookTitles : CreateBook(t)
    \/ \E b \in BookIds : SaveBookToFile(b)
    \/ \E b \in BookIds, t \in BookTitles : RenameBook(b, t)
    \/ \E b \in BookIds : DeleteBook(b)

SpecL == InitL /\ [][NextL]_vars

-----------------------------------------------------------------------------
(* The project storage: createProject and updateProject of the three       *)
(* storage classes, reached through POST and PATCH /api/projects           *)

Storages == {"storage.ts", "MemStorage", "SqliteStorage"}

\* the content of a parsed request body: the key is not there, or a string
BodyContents == {Undefined, "", "a", "b"}

\* value || ""
OrEmpty(v) == IF v = Undefined \/ v = "" THEN "" ELSE v

\* a ?? b
Coalesce(a, b) == IF a = Undefined THEN b ELSE a

\* the id randomUUID() gives: one no stored project has
FreshProjectId == CHOOSE p \in ProjectIds : ~projects[p].present

\* the content of the project createProject stores
CreatedContent(st, c) ==
    IF st = "storage.ts"
    THEN c              \* { ...insertProject, id, createdAt, updatedAt }
    ELSE OrEmpty(c)     \* content: insertProject.content || ""

\* the content of the project updateProject stores
UpdatedContent(st, old, c) ==
    IF st = "storage.ts"
    THEN (IF c = Undefined THEN old ELSE c)  \* { ...project, ...updates }
    ELSE Coalesce(c, old)   \* updates.content ?? project.content, or
                            \* if (updates.content !== undefined)

InitS ==
    /\ impl = "project"
    /\ now = 0
    /\ exists = [id \in Ids |-> id = KnownId]
    /\ title = <<"M", "y", " ", "B", "o", "o", "k">>
    /\ filename = generateFilename(<<"M", "y", " ", "B", "o", "o", "k">>)
    /\ content = 0
    /\ edits = 0
    /\ fs = [p \in Paths |-> NoFile]
    /\ inv = [i \in Inv |-> IdleInv]
    /\ tTOC = FALSE
    /\ tLines = <<>>
    /\ tI = -1
    /\ tAfter = FALSE
    /\ tOut = <<>>
    /\ tFlags = <<>>
    /\ ChaptersIdle
    /\ AnalyzerIdle
    /\ LibraryIdle
    /\ storage \in Storages
    /\ projects = [p \in ProjectIds |-> IF p = 1 THEN DefaultProject ELSE NoProject]
    /\ ClientIdle
    /\ DialogIdle

StoreRest == <<orchVars, transVars, chapVars, anVars, libVars, clientVars, dialogVars>>

\* POST /api/projects -> createProject
CreateProject(c) ==
    /\ \E p \in ProjectIds : ~projects[p].present
    /\ projects' = [projects EXCEPT ![FreshProjectId] = Project(CreatedContent(storage, c))]
    /\ UNCHANGED <<storage, StoreRest>>

\* PATCH /api/projects/:id -> updateProject; nothing is stored for an id
\* that is not there
UpdateProject(p, c) ==
    /\ projects' = IF projects[p].present
                   THEN [projects EXCEPT ![p] =
                            Project(UpdatedContent(storage, projects[p].content, c))]
                   ELSE projects
    /\ UNCHANGED <<storage, StoreRest>>

NextS ==
    \/ \E c \in BodyContents : CreateProject(c)
    \/ \E p \in ProjectIds, c \in BodyContents : UpdateProject(p, c)

SpecS == InitS /\ [][NextS]_vars

-----------------------------------------------------------------------------
(* The export dialog of the editor and the body the export route reads      *)

InitD ==
    /\ impl = "project"
    /\ now = 0
    /\ exists = [id \in Ids |-> id = KnownId]
    /\ title = <<"M", "y", " ", "B", "o", "o", "k">>
    /\ filename = generateFilename(<<"M", "y", " ", "B", "o", "o", "k">>)
    /\ content = 0
    /\ edits = 0
    /\ fs = [p \in Paths |-> NoFile]
    /\ inv = [i \in Inv |-> IdleInv]
    /\ tTOC = FALSE
    /\ tLines = <<>>
    /\ tI = -1
    /\ tAfter = FALSE
    /\ tOut = <<>>
    /\ tFlags = <<>>
    /\ ChaptersIdle
    /\ AnalyzerIdle
    /\ LibraryIdle
    /\ StoreIdle
    /\ ClientIdle
    /\ DialogIdle

DialogRest == <<orchVars, transVars, chapVars, anVars, libVars, storeVars, clientVars>>

\* the format select: setExportOptions({ ...exportOptions, format: value })
SetFormat(v) ==
    /\ exportOptions' = [exportOptions EXCEPT !.format = v]
    /\ UNCHANGED <<reqBody, applied, DialogRest>>

\* the page size select
SetPageSize(v) ==
    /\ exportOptions' = [exportOptions EXCEPT !.pageSize = v]
    /\ UNCHANGED <<reqBody, applied, DialogRest>>

\* one of the four checkboxes: setExportOptions({ ...exportOptions, [k]: !!checked })
SetCheckbox(k, checked) ==
    /\ exportOptions' = [exportOptions EXCEPT ![k] = checked]
    /\ UNCHANGED <<reqBody, applied, DialogRest>>

\* JSON.stringify(options) of exportBook: the options object itself is the body
BodyOf(options) == options

\* handleExport -> onExport(exportOptions) -> exportBook(projectId, options)
HandleExport ==
    /\ reqBody' = [sent |-> TRUE, chosen |-> exportOptions, body |-> BodyOf(exportOptions)]
    /\ applied' = NotApplied
    /\ UNCHANGED <<exportOptions, DialogRest>>

\* a destructured key of req.body with its default
KeyOr(body, k, d) == IF k \in DOMAIN body THEN body[k] ELSE d

\* options.includeTOC and the like, options being body.options or {}
OptionOf(body, k) ==
    IF "options" \in DOMAIN body
    THEN KeyOr(body["options"], k, FALSE)
    ELSE FALSE

\* the export route: const { format = "pdf", pageSize = "a4", options = {} }
\* = req.body, and what generateBookHTML and generatePDFWithPandoc test
ReadBody ==
    /\ reqBody.sent
    /\ ~applied.done
    /\ applied' = [done |-> TRUE,
                   format |-> KeyOr(reqBody.body, "format", "pdf"),
                   pageSize |-> KeyOr(reqBody.body, "pageSize", "a4"),
                   includeTOC |-> OptionOf(reqBody.body, "includeTOC"),
                   includeCover |-> OptionOf(reqBody.body, "includeCover")]
    /\ UNCHANGED <<exportOptions, reqBody, DialogRest>>

NextD ==
    \/ \E v \in {"pdf", "html"} : SetFormat(v)
    \/ \E v \in {"a4", "letter", "a5"} : SetPageSize(v)
    \/ \E k \in {"includeTOC", "includeCover", "includePageNumbers", "includeHeaders"},
          checked \in BOOLEAN : SetCheckbox(k, checked)
    \/ HandleExport
    \/ ReadBody

SpecD == InitD /\ [][NextD]_vars

-----------------------------------------------------------------------------
(* The editor's useBookState hook (project query, local content, debounced  *)
(* autosave) and the project routes it talks to. One user, one editor.     *)

\* the hook has mounted: the query is fetching and the autosave effect has
\* set its first timer
InitE ==
    /\ impl = "project"
    /\ now = 0
    /\ exists = [id \in Ids |-> id = KnownId]
    /\ title = <<"M", "y", " ", "B", "o", "o", "k">>
    /\ filename = generateFilename(<<"M", "y", " ", "B", "o", "o", "k">>)
    /\ content = 0
    /\ edits = 0
    /\ fs = [p \in Paths |-> NoFile]
    /\ inv = [i \in Inv |-> IdleInv]
    /\ tTOC = FALSE
    /\ tLines = <<>>
    /\ tI = -1
    /\ tAfter = FALSE
    /\ tOut = <<>>
    /\ tFlags = <<>>
    /\ ChaptersIdle
    /\ AnalyzerIdle
    /\ LibraryIdle
    /\ StoreIdle
    /\ DialogIdle
    /\ project = NotLoaded
    /\ bookState = EmptyText
    /\ timer = SaveDelay
    /\ saves = <<>>
    /\ fetch = [NoFetch EXCEPT !.state = "requested"]
    /\ serverProject = [content |-> DefaultText, updatedAt |-> 0]
    /\ typed = 0
    /\ stopped = FALSE
    /\ issued = {}

ClientRest == <<orchVars, transVars, chapVars, anVars, libVars, storeVars, dialogVars>>

\* GET /api/projects/:id answers with the stored project
ServeGet ==
    /\ fetch.state = "requested"
    /\ fetch' = [state |-> "responded", content |-> serverProject.content,
                 updatedAt |-> serverProject.updatedAt]
    /\ UNCHANGED <<project, bookState, timer, saves, serverProject, typed, stopped,
                   issued, ClientRest>>

\* the content setBookState gets in the effect on [project]
LoadedContent(wasLoaded, local, fetched) == fetched

\* the answer arrives. Data equal to the data held keeps `project` as it is;
\* new data re-runs both effects: the local state is set from the project,
\* and the autosave timer is cleared and set again
FetchArrives ==
    /\ fetch.state = "responded"
    /\ fetch' = NoFetch
    /\ IF project = Loaded(fetch.content, fetch.updatedAt)
       THEN UNCHANGED <<project, bookState, timer>>
       ELSE /\ project' = Loaded(fetch.content, fetch.updatedAt)
            /\ bookState' = LoadedContent(project.loaded, bookState, fetch.content)
            /\ timer' = SaveDelay
    /\ UNCHANGED <<saves, serverProject, typed, stopped, issued, ClientRest>>

\* updateContent(content): the user changes the text; the effect on
\* [bookState.content, project] clears the timer and sets a new one
updateContent ==
    /\ ~stopped
    /\ typed < MaxTyped
    /\ typed' = typed + 1
    /\ bookState' = DefaultText + typed + 1
    /\ timer' = SaveDelay
    /\ UNCHANGED <<project, saves, fetch, serverProject, stopped, issued, ClientRest>>

\* the user stops editing
StopEditing ==
    /\ ~stopped
    /\ stopped' = TRUE
    /\ UNCHANGED <<project, bookState, timer, saves, fetch, serverProject, typed,
                   issued, ClientRest>>

\* 1000 ms pass on the pending timer
TimerTick ==
    /\ timer > 0
    /\ timer' = timer - 1
    /\ UNCHANGED <<project, bookState, saves, fetch, serverProject, typed, stopped,
                   issued, ClientRest>>

\* the timer callback: saveProjectMutation.mutate({ content }) when a
\* project is loaded and the local content differs from its content
TimerFires ==
    /\ timer = 0
    /\ timer' = NoTimer
    /\ IF project.loaded /\ bookState # project.content
       THEN /\ saves' = Append(saves, [content |-> bookState, state |-> "sent"])
            /\ issued' = issued \cup {bookState}
       ELSE UNCHANGED <<saves, issued>>
    /\ UNCHANGED <<project, bookState, fetch, serverProject, typed, stopped, ClientRest>>

\* PATCH /api/projects/:id -> updateProject stores the content, or the
\* request fails on the way
ServePatch(k, ok) ==
    /\ k \in 1..Len(saves)
    /\ saves[k].state = "sent"
    /\ IF ok
       THEN /\ serverProject' = [content |-> saves[k].content,
                                 updatedAt |-> serverProject.updatedAt + 1]
            /\ saves' = [saves EXCEPT ![k].state = "stored"]
       ELSE /\ saves' = [saves EXCEPT ![k].state = "failed"]
            /\ UNCHANGED serverProject
    /\ UNCHANGED <<project, bookState, timer, fetch, typed, stopped, issued, ClientRest>>

\* the sequence without its k-th element
Without(q, k) == SubSeq(q, 1, k - 1) \o SubSeq(q, k + 1, Len(q))

\* the mutation settles: onSuccess invalidates the project query, which is
\* fetched again; onError only shows a toast
SaveSettles(k) ==
    /\ k \in 1..Len(saves)
    /\ saves[k].state \in {"stored", "failed"}
    /\ saves' = Without(saves, k)
    /\ fetch' = IF saves[k].state = "stored"
                THEN [NoFetch EXCEPT !.state = "requested"]
                ELSE fetch
    /\ UNCHANGED <<project, bookState, timer, serverProject, typed, stopped, issued,
                   ClientRest>>

NextE ==
    \/ ServeGet
    \/ FetchArrives
    \/ updateContent
    \/ StopEditing
    \/ TimerTick
    \/ TimerFires
    \/ \E k \in 1..MaxTyped, ok \in BOOLEAN : ServePatch(k, ok)
    \/ \E k \in 1..MaxTyped : SaveSettles(k)

SpecE == InitE /\ [][NextE]_vars

\* timers fire, time passes, and the server and the network answer; the
\* user is under no obligation
SpecEF ==
    /\ SpecE
    /\ WF_vars(TimerTick)
    /\ WF_vars(TimerFires)
    /\ WF_vars(ServeGet)
    /\ WF_vars(FetchArrives)
    /\ WF_vars(\E k \in 1..MaxTyped, ok \in BOOLEAN : ServePatch(k, ok))
    /\ WF_vars(\E k \in 1..MaxTyped : SaveSettles(k))

-----------------------------------------------------------------------------
(* Claims about the export orchestrator (checked under Spec)               *)

Done(i) == inv[i].pc = "done"

\* invocation i went through generatePDFWithPandoc
UsedPandoc(i) == inv[i].pdf # NoPath

\* the temporary files of invocation i: /tmp/book-<t>.pdf and, in the
\* project generation, /tmp/book-<t>.md (books/<filename>.md is the book's
\* own file, not a temporary one)
TempPaths(i) ==
    IF ~UsedPandoc(i) THEN {}
    ELSE IF impl = "project" THEN {inv[i].md, inv[i].pdf} ELSE {inv[i].pdf}

\* file p exists and invocation i created it
CreatedBy(p, i) == fs[p].present /\ fs[p].by = i

\* the text invocation i built from the manuscript it read
OwnText(i) ==
    IF impl = "project" THEN PandocMarkdown(inv[i].snap, inv[i].toc)
    ELSE BookMarkdown(inv[i].snap)

\* C1: once a PDF export through generatePDFWithPandoc has returned or
\* thrown, none of the temporary files the invocation created exists. (A
\* file whose own deletion the filesystem refused is not counted.)
C1_TempFilesGone ==
    \A i \in Inv :
        Done(i) =>
            \A p \in TempPaths(i) : CreatedBy(p, i) => p \in inv[i].refused

\* C2: two export invocations that overlap in time use distinct temporary
\* file paths.
C2_DistinctTempPaths ==
    \A i, j \in Inv :
        (i # j /\ inv[i].pc \in ActivePcs /\ inv[j].pc \in ActivePcs) =>
            /\ inv[i].md # inv[j].md
            /\ inv[i].pdf # inv[j].pdf

\* C3: what the external tool renders for an invocation is the text built
\* from the manuscript the invocation read at its start, whatever edits and
\* other exports happened since.
C3_RendersOwnSnapshot ==
    \A i \in Inv :
        inv[i].pc \in {"running", "writing", "exitOk"} =>
            inv[i].rendered = OwnText(i)

\* C4: every finished export either answered 200 with a complete artifact
\* read after the command ran to completion, or answered with an error
\* carrying no artifact bytes.
C4_AllOrNothing ==
    \A i \in Inv :
        Done(i) =>
            LET r == inv[i].resp
            IN  \/ /\ r.status = 200
                   /\ r.body.read
                   /\ r.body.complete
                   /\ r.kind = "pdf" => (inv[i].cmd = "ok" /\ inv[i].buf.read)
                \/ /\ r.status >= 400
                   /\ r.body = NoBuf

\* C5: a failure while deleting a temporary file never reaches the caller:
\* a failed command is answered with the command's error, and a command
\* and read that succeeded are answered with the PDF bytes.
C5_CleanupFailureSwallowed ==
    \A i \in Inv :
        Done(i) =>
            /\ inv[i].cmd = "fail" => inv[i].resp.err = "command"
            /\ (inv[i].cmd = "ok" /\ inv[i].buf.read) =>
                   (inv[i].resp.status = 200 /\ inv[i].resp.kind = "pdf"
                        /\ inv[i].resp.body.read)

\* C9: an export request that leaves includeTOC and includeCover
\* unspecified is processed with both set (and format pdf, page size a4
\* when those are left out too), and an HTML document it returns has the
\* cover and the table of contents.
C9_DefaultsIncludeTOCAndCover ==
    \A i \in Inv :
        ~inv[i].flagsGiven =>
            /\ inv[i].pc \in ActivePcs => (inv[i].toc /\ inv[i].cover)
            /\ (Done(i) /\ inv[i].resp.kind = "html") =>
                   (inv[i].resp.body.doc.toc /\ inv[i].resp.body.doc.cover)

\* C10: the Content-Disposition filename of an export is the sanitized form
\* of the title the export read, followed by .pdf for a PDF payload and
\* .html for an HTML payload.
C10_FilenameIsSanitizedTitle ==
    \A i \in Inv :
        (Done(i) /\ inv[i].resp.status = 200) =>
            /\ inv[i].resp.fname = generateFilename(inv[i].snap.title)
            /\ inv[i].resp.ext = inv[i].resp.kind

\* C13: an export starts the external command at most once, exactly once
\* when it got as far as the command; when the command failed the export
\* answered 500 with the generic message and the command was not started
\* again.
C13_CommandStartedOnce ==
    \A i \in Inv :
        /\ inv[i].execs <= 1
        /\ (inv[i].pc \in ActivePcs \/ inv[i].cmd # "none") => inv[i].execs = 1
        /\ (Done(i) /\ inv[i].cmd = "fail") =>
               (inv[i].resp = JsonResp(500, "command") /\ inv[i].execs = 1)

\* C13's case: the command of an export failed and the export has answered
C13_Witness ==
    \E i \in Inv :
        Done(i) /\ inv[i].cmd = "fail" /\ inv[i].execs = 1 /\ inv[i].resp.status = 500

\* C14: an export with format html answers 200 with the assembled HTML
\* document, has picked no temporary path, created no file and started no
\* command.
C14_HtmlShortCircuits ==
    \A i \in Inv :
        (Done(i) /\ inv[i].format = "html") =>
            /\ inv[i].resp.status = 200 /\ inv[i].resp.kind = "html"
            /\ inv[i].resp.body.read /\ inv[i].resp.body.complete
            /\ inv[i].resp.body.doc.title = inv[i].snap.title
            /\ inv[i].md = NoPath /\ inv[i].pdf = NoPath
            /\ inv[i].execs = 0 /\ inv[i].cmd = "none"
            /\ \A p \in Paths : ~CreatedBy(p, i)

\* C14's case: an HTML export has answered while a PDF export is under way
C14_Witness ==
    \E i, j \in Inv :
        /\ Done(i) /\ inv[i].format = "html" /\ inv[i].resp.kind = "html"
        /\ inv[j].pc \in PandocPcs

\* the stored manuscript: is it there, its title, filename and body text
Manuscript == <<exists, title, filename, content>>

\* the files books/<filename>.md
BookPaths == {BookMd(generateFilename(t)) : t \in Titles}

\* C15: a step of an export (one that changes an invocation or a file)
\* leaves the stored manuscript as it is and removes no books/<filename>.md.
C15_ExportIsReadOnly ==
    [][(inv' # inv \/ fs' # fs) =>
          /\ UNCHANGED Manuscript
          /\ \A p \in BookPaths : fs[p].present => fs'[p].present]_vars

\* C15's case: the manuscript was edited, an export of it failed in the
\* command and has answered, and the book's file is on disk
C15_Witness ==
    \E i \in Inv :
        /\ Done(i) /\ inv[i].cmd = "fail" /\ edits > 0
        /\ exists[inv[i].id]
        /\ \E p \in BookPaths : fs[p].present

\* C16: an export for an identifier with no stored manuscript answers 404,
\* has picked no temporary path, created no file and started no command.
C16_NotFound ==
    \A i \in Inv :
        (Done(i) /\ ~exists[inv[i].id]) =>
            /\ inv[i].resp = JsonResp(404, "notfound")
            /\ inv[i].md = NoPath /\ inv[i].pdf = NoPath
            /\ inv[i].execs = 0 /\ inv[i].cmd = "none"
            /\ \A p \in Paths : ~CreatedBy(p, i)

\* C16's case: an export for an unknown identifier has answered while an
\* export of a stored manuscript is under way
C16_Witness ==
    \E i, j \in Inv :
        /\ Done(i) /\ ~exists[inv[i].id] /\ inv[i].resp.status = 404
        /\ inv[j].pc \in PandocPcs

\* C17: the engine in the command line of a running export is one of
\* pdflatex, xelatex, lualatex.
C17_EngineEnumerated ==
    \A i \in Inv : inv[i].pc \in PandocPcs => inv[i].engine \in Engines


-----------------------------------------------------------------------------
(* Claims about the transformer (checked under SpecT)                      *)

\* the line of index k as the loop sees it
LineAt(k) == Trim(tLines[k + 1])

\* the indices of the lines processed so far
Processed == 0..(tI - 1)

\* a page-break directive was appended while line k was processed, right
\* before the heading line itself
NewpageAt(k) ==
    \E c \in 1..(Len(tOut) - 1) :
        /\ tOut[c] = Chunk(k, NewpageStr)
        /\ tOut[c + 1] = Chunk(k, LineAt(k) \o NL \o NL)

\* the chunks that are drop-capital directives
IsLettrine(c) == Len(tOut[c].str) > 0 /\ tOut[c].str[1] = LettrineOpen

\* the drop-capital directive fired on line k
FiredAt(k) == \E c \in 1..Len(tOut) : tOut[c].src = k /\ IsLettrine(c)

\* afterHeading before line k is processed
FlagBefore(k) == IF k = 0 THEN FALSE ELSE tFlags[k]

\* C6: a page-break directive is inserted before every level-1 heading of
\* the body except the first level-1 heading encountered, and nowhere else.
C6_PageBreakBeforeAllButFirstH1 ==
    \A k \in Processed :
        NewpageAt(k) <=> (IsH1(LineAt(k)) /\ \E j \in 0..(k - 1) : IsH1(LineAt(j)))

\* C7: the drop capital fires at most once per heading: between two lines
\* it fired on there is a heading line, the flag is down right after it
\* fired, and a list line is never wrapped and leaves the flag as it was.
C7_DropCapOncePerHeading ==
    /\ \A i, j \in Processed :
          (i < j /\ FiredAt(i) /\ FiredAt(j)) =>
              \E k \in (i + 1)..(j - 1) : IsHeading(LineAt(k))
    /\ \A k \in Processed :
          /\ FiredAt(k) => ~tFlags[k + 1]
          /\ IsListLine(LineAt(k)) => (~FiredAt(k) /\ tFlags[k + 1] = FlagBefore(k))

\* C7's case: the directive fired, then a list line and a later paragraph
\* line were read with no heading in between, and the paragraph line was
\* not wrapped
C7_Witness ==
    /\ TDone
    /\ \E i, j, k \in Processed :
          /\ i < j /\ j < k
          /\ FiredAt(i)
          /\ IsListLine(LineAt(j))
          /\ LineAt(k) # <<>> /\ ~IsHeading(LineAt(k)) /\ ~IsListLine(LineAt(k))
          /\ ~FiredAt(k)
          /\ \A m \in i..k : ~IsHeading(LineAt(m))

\* \lettrine{c}{s}r for a line: c its first character, s the next two (or
\* as many as there are), r the rest
LettrineOf(line) ==
    <<LettrineOpen, line[1], "}{">> \o SubSeq(line, 2, Min2(3, Len(line)))
        \o <<"}">> \o SubSeq(line, 4, Len(line)) \o <<"\n", "\n">>

\* C8: where the drop capital fires, the emitted line is \lettrine{c}{s}r
\* of the line (as the loop reads it, surrounding whitespace removed); for
\* '# Title', '', 'Hello world' it fires exactly once and emits
\* \lettrine{H}{el}lo world.
C8_DropCapShape ==
    /\ \A c \in 1..Len(tOut) :
          IsLettrine(c) => tOut[c].str = LettrineOf(LineAt(tOut[c].src))
    /\ (TDone /\ tLines = <<LineH1, LineBlank, LineHello>>) =>
          /\ {c \in 1..Len(tOut) : IsLettrine(c)} = {4}
          /\ tOut[4] = Chunk(2, <<LettrineOpen, "H", "}{", "e", "l", "}", "l", "o", " ",
                                  "w", "o", "r", "l", "d", "\n", "\n">>)

\* C8's case: the claim's example has been transformed and the directive
\* has fired in it
C8_Witness ==
    /\ TDone
    /\ tLines = <<LineH1, LineBlank, LineHello>>
    /\ FiredAt(2)

\* the lines of the metadata header
HeaderLines == {tOut[1].str[k] : k \in 1..Len(tOut[1].str)}

\* C21: the output starts with the metadata header block, every body chunk
\* comes after it, and the header has `toc: true` and `toc-depth: 3` iff
\* includeTOC is set.
C21_HeaderFirstTocByFlag ==
    tI >= 0 =>
        /\ Len(tOut) >= 1
        /\ tOut[1].src = -1
        /\ tOut[1].str[1] = "---"
        /\ tOut[1].str[Len(tOut[1].str) - 1] = "---"
        /\ \A c \in 2..Len(tOut) : tOut[c].src >= 0
        /\ ("toc: true" \in HeaderLines) <=> tTOC
        /\ ("toc-depth: 3" \in HeaderLines) <=> tTOC

\* C21's case: a body with a heading was transformed to the end without
\* includeTOC
C21_Witness ==
    /\ TDone
    /\ ~tTOC
    /\ Len(tOut) > 2
    /\ \E k \in Processed : IsH1(LineAt(k))

\* C25: every heading line leaves the flag true, every non-list content
\* line leaves it false, and blank lines and list lines leave it as it was.
C25_FlagRules ==
    \A k \in Processed :
        LET line == LineAt(k)
        IN  /\ IsHeading(line) => tFlags[k + 1]
            /\ (line = <<>> \/ (~IsHeading(line) /\ IsListLine(line))) =>
                   tFlags[k + 1] = FlagBefore(k)
            /\ (line # <<>> /\ ~IsHeading(line) /\ ~IsListLine(line)) => ~tFlags[k + 1]

\* C25's case: a heading right after a heading, then a blank or list line,
\* then a paragraph line: the flag is true after the first three and false
\* after the last
C25_Witness ==
    /\ TDone
    /\ Len(tLines) = 4
    /\ IsHeading(LineAt(0)) /\ IsHeading(LineAt(1))
    /\ (LineAt(2) = <<>> \/ IsListLine(LineAt(2)))
    /\ LineAt(3) = LineTwo
    /\ tFlags = <<TRUE, TRUE, TRUE, FALSE>>

-----------------------------------------------------------------------------
(* Claims about the chapters table (checked under SpecC)                   *)

\* the orderIndex values of the chapters of book b
OrderIndexes(b) == {chapters[c].orderIndex : c \in BookChapterIds(chapters, b)}

\* C11: when a reorderChapters call on a manuscript has returned (and no
\* other one is under way), the
\* orderIndex values of the manuscript's chapters are exactly 0..n-1, n the
\* number of its chapters.
C11_ReorderLeavesContiguous ==
    (lastOp.op = "reorder" /\ ~reorder.active) =>
        OrderIndexes(lastOp.bookId)
            = 0..(Cardinality(BookChapterIds(chapters, lastOp.bookId)) - 1)

\* C12: when reorderChapters or updateChapter has changed a chapter's
\* orderIndex, every chapter of the manuscript has pageNumber =
\* orderIndex + 1.
C12_PageNumbersFollowOrder ==
    (lastOp.op \in {"reorder", "update"} /\ lastOp.orderChanged /\ ~reorder.active) =>
        \A c \in BookChapterIds(chapters, lastOp.bookId) :
            chapters[c].pageNumber = chapters[c].orderIndex + 1

\* C29: whatever chapters the editor has created and deleted on a book, no
\* two chapters of the book share an orderIndex, and no two share a
\* pageNumber.
C29_PositionsDistinct ==
    \A b \in Ids : \A c, d \in BookChapterIds(chapters, b) :
        c # d => /\ chapters[c].orderIndex # chapters[d].orderIndex
                 /\ chapters[c].pageNumber # chapters[d].pageNumber

-----------------------------------------------------------------------------
(* Claims about the analyzer and the HTML assembly (checked under SpecA)   *)

\* the indices (from 1) of the lines among the first n that match the
\* heading pattern
MatchingLines(n) == {k \in 1..n : Candidates(aLines[k]) # {}}

\* the j-th matching line, in source order
NthMatching(n, j) ==
    CHOOSE k \in MatchingLines(n) : Cardinality({m \in MatchingLines(n) : m <= k}) = j

\* C18: the analyzer's output has exactly one item per line visited that
\* matches the heading pattern, in source order: the j-th item is the item
\* of the j-th matching line, repeated headings and level jumps included.
C18_OneItemPerMatchingLine ==
    /\ Len(tocItems) = Cardinality(MatchingLines(aI))
    /\ \A j \in 1..Len(tocItems) :
          tocItems[j] = ItemOf(aImpl, Match(aLines[NthMatching(aI, j)]))

\* C18's case: a text with the same heading line twice, a level-6 heading
\* right after a level-1 heading or a line that does not match, analyzed to
\* the end
C18_Witness ==
    /\ aI = Len(aLines)
    /\ Len(aLines) = 3
    /\ aLines[1] = <<"#", " ", "T">>
    /\ aLines[2] \in {<<"#", "#", "#", "#", "#", "#", " ", "d">>, <<"t", "e", "x", "t">>}
    /\ aLines[3] = <<"#", " ", "T">>
    /\ tocItems[Len(tocItems)] = tocItems[1]

\* C19: every item the analyzer emits has a level in 1..6 and a non-empty
\* title.
C19_LevelAndTitle ==
    \A j \in 1..Len(tocItems) :
        /\ tocItems[j].level \in 1..6
        /\ tocItems[j].title # <<>>

\* the positions of the sections of a kind in the assembled document
SectionsOf(kind) == {k \in 1..Len(aHtml) : aHtml[k].kind = kind}

\* C20: the assembled document has the cover section iff includeCover is
\* set, the table of contents iff includeTOC is set, always the body, in
\* the order cover, table of contents, body; with both flags false it has
\* the body only.
C20_SectionsByFlags ==
    aHtml # <<>> =>
        /\ \A k \in 1..Len(aHtml) : aHtml[k].kind \in {"cover-page", "toc-page", "content"}
        /\ Cardinality(SectionsOf("content")) = 1
        /\ Cardinality(SectionsOf("cover-page"))
              = (IF aOptions.includeCover = "true" THEN 1 ELSE 0)
        /\ Cardinality(SectionsOf("toc-page"))
              = (IF aOptions.includeTOC = "true" THEN 1 ELSE 0)
        /\ \A a \in SectionsOf("cover-page"), b \in SectionsOf("toc-page") : a < b
        /\ \A a \in SectionsOf("cover-page") \cup SectionsOf("toc-page"),
              b \in SectionsOf("content") : a < b
        /\ \A a \in SectionsOf("toc-page") : aHtml[a].items = tocItems
        /\ (aOptions.includeCover = "false" /\ aOptions.includeTOC = "false") =>
              (Len(aHtml) = 1 /\ aHtml[1].kind = "content")

\* C20's case: a document assembled with includeCover=false and
\* includeTOC=false from a text that has headings
C20_Witness ==
    /\ aHtml # <<>>
    /\ aOptions.includeCover = "false" /\ aOptions.includeTOC = "false"
    /\ Len(tocItems) > 0

\* the lines (indices from 1) the transformer takes as level-1 headings and
\* as headings of any level
TransformerH1Lines == {k \in 1..Len(aLines) : IsH1(Trim(aLines[k]))}
TransformerHeadingLines == {k \in 1..Len(aLines) : IsHeading(Trim(aLines[k]))}

\* the lines the analyzer yields a level-1 item for
AnalyzerH1Lines ==
    {k \in MatchingLines(Len(aLines)) : ItemOf(aImpl, Match(aLines[k])).level = 1}

\* C26: once a text is analyzed, the lines with an item (a level-1 item) are
\* exactly the lines the transformer takes as headings (level-1 headings).
C26_TransformerAgreesWithAnalyzer ==
    aI = Len(aLines) =>
        /\ Len(tocItems) = Cardinality(TransformerHeadingLines)
        /\ TransformerHeadingLines = MatchingLines(Len(aLines))
        /\ TransformerH1Lines = AnalyzerH1Lines

-----------------------------------------------------------------------------
(* Claims about the books table and the books directory (checked under     *)
(* SpecL)                                                                  *)

RECURSIVE NonAlnumRunsToHyphen(_, _)
\* every maximal run of characters outside a-z, 0-9 becomes one hyphen
NonAlnumRunsToHyphen(s, inRun) ==
    IF s = <<>> THEN <<>>
    ELSE IF ~IsLowerAlnum(Head(s))
         THEN (IF inRun THEN <<>> ELSE <<"-">>) \o NonAlnumRunsToHyphen(Tail(s), TRUE)
         ELSE <<Head(s)>> \o NonAlnumRunsToHyphen(Tail(s), FALSE)

\* C22: the filename generated for a title is the title lowercased with
\* every maximal run of non-alphanumeric characters collapsed to one hyphen.
C22_FilenameCollapsesRuns ==
    \A b \in BookIds :
        books[b].present =>
            books[b].filename = NonAlnumRunsToHyphen(ToLowerCase(books[b].title), FALSE)

\* C30: when renameBook has returned for a book whose file existed under
\* the old filename, the file is at the new filename's path and no file is
\* at the old one.
C30_RenameMovesFile ==
    (lastRename.done /\ lastRename.hadFile
        /\ lastRename.oldFilename # books[lastRename.id].filename) =>
        /\ books[lastRename.id].filename \in booksDir
        /\ lastRename.oldFilename \notin booksDir

-----------------------------------------------------------------------------
(* Claims about the project storage (checked under SpecS)                  *)

\* C23: after any sequence of creates and updates, every stored project has
\* a defined content.
C23_ContentDefined ==
    \A p \in ProjectIds : projects[p].present => projects[p].content # Undefined

-----------------------------------------------------------------------------
(* Claims about the export dialog (checked under SpecD)                    *)

\* C28: the format, includeTOC and includeCover the server works with are
\* the ones chosen in the dialog when the export was started.
C28_ServerAppliesChosenOptions ==
    applied.done =>
        /\ applied.format = reqBody.chosen.format
        /\ applied.includeTOC = reqBody.chosen.includeTOC
        /\ applied.includeCover = reqBody.chosen.includeCover

-----------------------------------------------------------------------------
(* Claims about the editor's autosave (checked under SpecE and SpecEF)      *)

\* the texts the editor can hold
Texts == 0..(DefaultText + MaxTyped)

\* C24 (its last part): when the user has stopped editing and the local
\* content differs from the loaded project's content and no save has been
\* issued for it, a save carrying it is eventually issued.
C24_UnsavedContentEventuallySaved ==
    \A v \in Texts :
        (stopped /\ project.loaded /\ bookState = v /\ v # project.content
            /\ v \notin issued)
        ~> (v \in issued)

\* C27: once the project is loaded, no step replaces the local content with
\* an older text (texts are numbered in the order they were written).
C27_RefetchKeepsLocalContent ==
    [][project.loaded => bookState' >= bookState]_vars

=============================================================================
